---- MODULE Spec2Model ----
(***************************************************************************)
(* Model of solution.py: the Titanic feature-extraction / age-imputation   *)
(* pipeline and the 3-fold cross-validated ensemble evaluation.            *)
(*                                                                         *)
(* A pandas DataFrame is a sequence of rows (records); a missing numeric   *)
(* cell (NaN) is the number NaN, a missing string cell is the string None. *)
(* The estimators of scikit-learn are opaque: a fitted RandomForest-       *)
(* Regressor is a function from feature tuples to ages inside the range of *)
(* its training targets, a fitted classifier answers 0 or 1 per distinct   *)
(* feature row.  Python 3 semantics are assumed ("/" is true division).    *)
(***************************************************************************)
EXTENDS Integers, Sequences, FiniteSets, TLC

\* -------------------------------------------------------------- bounds
MaxRows == 4        \* rows of a table in the feature-extraction runs
MaxN == 4           \* rows of a table in the cross-validation runs
MaxM == 2           \* classifiers handed to the ensemble

\* ------------------------------------------------------- program constants
n_folds == 3

\* ------------------------------------------------------------ cell values
NaN == 0 - 1
None == "None"

\* Series.isnull() / notnull() on a numeric cell and on a string cell
isnull(v) == v = NaN
notnull(v) == v # NaN
isnullStr(v) == v = None
notnullStr(v) == v # None

Range(s) == {s[i] : i \in DOMAIN s}

RECURSIVE SumSeq(_)
SumSeq(s) == IF s = <<>> THEN 0 ELSE Head(s) + SumSeq(Tail(s))

Abs(x) == IF x < 0 THEN 0 - x ELSE x

SetMin(S) == CHOOSE x \in S : \A y \in S : x <= y
SetMax(S) == CHOOSE x \in S : \A y \in S : x >= y

\* df[col] : the column as a sequence
Col(df, c) == [i \in 1..Len(df) |-> df[i][c]]

\* df['Age'].notnull() / df['Age'].isnull() as the positions a boolean mask
\* selects, in increasing order
AgeNotnull(df) == SelectSeq([i \in 1..Len(df) |-> i], LAMBDA i : notnull(df[i].Age))

AgeIsnull(df) == SelectSeq([i \in 1..Len(df) |-> i], LAMBDA i : isnull(df[i].Age))

\* ------------------------------------------------------------ input tables
\* One row of train.csv. FamilySize = NaN stands for "the column does not
\* exist yet".
Row(pclass, sex, age, sibsp, parch, fare, cabin, embarked, survived) ==
  [Survived |-> survived, Pclass |-> pclass, Sex |-> sex, Age |-> age,
   SibSp |-> sibsp, Parch |-> parch, Fare |-> fare, Cabin |-> cabin,
   Embarked |-> embarked, FamilySize |-> NaN]

\* The rows the tables of the feature-extraction runs are made of: every
\* class, sex and port, and every cell that may be missing both present and
\* missing. All fares are odd, so the median of an even number of them is a
\* whole number.
RawRows ==
  { Row(1, "female", 22,  1, 0, 71,  "C85", "C",  1),
    Row(2, "male",   38,  0, 0, 7,   None,  "Q",  0),
    Row(3, "male",   NaN, 0, 2, 7,   None,  "S",  0),
    Row(3, "female", NaN, 1, 1, 71,  None,  None, 1),
    Row(1, "male",   38,  0, 0, NaN, "C85", "S",  0),
    Row(2, "female", NaN, 1, 0, NaN, "C85", "C",  1) }

\* a table of k rows
Tables(rows, k) == [1..k -> rows]

\* ---------------------------------------------------------------- Imputer
\* age_data = data[['Age', 'SibSp', 'Parch', 'Fare', 'Pclass']]
AgeData(data) ==
  [i \in 1..Len(data) |->
     [Age |-> data[i].Age, SibSp |-> data[i].SibSp, Parch |-> data[i].Parch,
      Fare |-> data[i].Fare, Pclass |-> data[i].Pclass]]

\* frame.iloc[:, 1:] : the four regression features of every row
XOf(frame) ==
  [k \in 1..Len(frame) |->
     <<frame[k].SibSp, frame[k].Parch, frame[k].Fare, frame[k].Pclass>>]

\* the one-row frame substituted when no age is missing
Placeholder == <<[Age |-> NaN, SibSp |-> 0, Parch |-> 0, Fare |-> 0, Pclass |-> 0]>>

WithAge(data) ==
  LET age_data == AgeData(data)
      idx == AgeNotnull(age_data)
  IN  [k \in 1..Len(idx) |-> age_data[idx[k]]]

WithoutAge(data) ==
  LET age_data == AgeData(data)
      idx == AgeIsnull(age_data)
  IN  IF Len(idx) = 0 THEN Placeholder ELSE [k \in 1..Len(idx) |-> age_data[idx[k]]]

\* sklearn's input validation: fit and predict raise ValueError on a matrix
\* with no rows or with a NaN cell
ValidMatrix(X) == Len(X) > 0 /\ \A k \in 1..Len(X) : \A j \in 1..Len(X[k]) : notnull(X[k][j])

\* What RandomForestRegressor.predict can answer lies between the least and
\* the greatest training target; two such answers are modelled: the least
\* target and the midpoint of the targets' range.
AgeRange(Y) ==
  {SetMin(Range(Y)), (SetMin(Range(Y)) + SetMax(Range(Y))) \div 2}

\* The regressors alg.fit(X, Y) can produce, as functions over the rows Q
\* they will be asked about (the empty function when fit raises).
RandomForestRegressor(X, Y, Q) ==
  IF ValidMatrix(X) THEN [Range(Q) -> AgeRange(Y)] ELSE {<<>>}

RegressorsFor(data) ==
  RandomForestRegressor(XOf(WithAge(data)), Col(WithAge(data), "Age"), XOf(WithoutAge(data)))

\* (mutant) the values are written to the missing rows in reverse order
WriteAgesReversed(data, values) ==
  LET idx == AgeIsnull(data)
      rank(i) == CHOOSE k \in 1..Len(idx) : idx[k] = i
  IN  [i \in 1..Len(data) |->
         IF isnull(data[i].Age)
         THEN [data[i] EXCEPT !.Age = values[Len(idx) + 1 - rank(i)]]
         ELSE data[i]]

\* data.loc[data['Age'].isnull(), 'Age'] = values : the k-th missing row
\* takes the k-th value
WriteAges(data, values) ==
  LET idx == AgeIsnull(data)
      rank(i) == CHOOSE k \in 1..Len(idx) : idx[k] = i
  IN  [i \in 1..Len(data) |->
         IF isnull(data[i].Age) THEN [data[i] EXCEPT !.Age = values[rank(i)]]
         ELSE data[i]]

\* (mutant) with nothing to train on, a default age is written
fill_missing_ages_default(data, alg) ==
  [data |-> [i \in 1..Len(data) |->
               IF isnull(data[i].Age) THEN [data[i] EXCEPT !.Age = 0] ELSE data[i]],
   alg |-> alg, raised |-> FALSE, fits |-> 0, predicts |-> 0]

\* fill_missing_ages(data) with the regressor that fit produced. `raised`
\* is the ValueError of fit or predict; nothing is written then.
fill_missing_ages(data, alg) ==
  LET with_age == WithAge(data)
      without_age == WithoutAge(data)
      X == XOf(with_age)
      Q == XOf(without_age)
      fitOk == ValidMatrix(X)
      predictOk == fitOk /\ ValidMatrix(Q)
      predicted == [k \in 1..Len(Q) |-> alg[Q[k]]]
  IN  [data |-> IF predictOk THEN WriteAges(data, predicted) ELSE data,
       alg |-> alg,
       raised |-> ~predictOk,
       fits |-> 1,
       predicts |-> IF fitOk THEN 1 ELSE 0]

\* ------------------------------------------------------ Feature Extractor
\* set_cabin_type: the two assignments, one after the other
set_cabin_type(data) ==
  LET yes == [i \in 1..Len(data) |->
                IF notnullStr(data[i].Cabin) THEN [data[i] EXCEPT !.Cabin = "Yes"] ELSE data[i]]
  IN  [i \in 1..Len(data) |->
         IF isnullStr(yes[i].Cabin) THEN [yes[i] EXCEPT !.Cabin = "No"] ELSE yes[i]]

\* data["Embarked"] = data["Embarked"].fillna("S")
FillEmbarked(data) ==
  [i \in 1..Len(data) |->
     IF isnullStr(data[i].Embarked) THEN [data[i] EXCEPT !.Embarked = "S"] ELSE data[i]]

\* Series.median(): NaN cells are skipped; NaN when nothing is left
Median(col) ==
  LET present == SelectSeq(col, notnull)
      sorted == SortSeq(present, <)
      n == Len(sorted)
  IN  IF n = 0 THEN NaN
      ELSE IF n % 2 = 1 THEN sorted[(n + 1) \div 2]
      ELSE (sorted[n \div 2] + sorted[n \div 2 + 1]) \div 2

\* (mutant) the fare fill is left out
FillFareSkipped(data) == data

\* data['Fare'] = data['Fare'].fillna(data['Fare'].median())
FillFare(data) ==
  LET m == Median(Col(data, "Fare"))
  IN  [i \in 1..Len(data) |->
         IF isnull(data[i].Fare) THEN [data[i] EXCEPT !.Fare = m] ELSE data[i]]

\* data['FamilySize'] = data['SibSp'] + data['Parch']
AddFamilySize(data) ==
  [i \in 1..Len(data) |-> [data[i] EXCEPT !.FamilySize = data[i].SibSp + data[i].Parch]]

\* (mutant) one indicator column per listed category, occurring or not
get_dummies_fixed(col, cats, names) ==
  [cols |-> names,
   rows |-> [i \in 1..Len(col) |->
               [j \in 1..Len(cats) |-> IF col[i] = cats[j] THEN 1 ELSE 0]]]

\* pd.get_dummies(column, prefix): one indicator column per value that
\* occurs in the column, in sorted order. cats lists the values in sorted
\* order, names the column name of each.
get_dummies(col, cats, names) ==
  LET keep == SelectSeq([k \in 1..Len(cats) |-> k],
                        LAMBDA k : \E i \in 1..Len(col) : col[i] = cats[k])
  IN  [cols |-> [j \in 1..Len(keep) |-> names[keep[j]]],
       rows |-> [i \in 1..Len(col) |->
                   [j \in 1..Len(keep) |-> IF col[i] = cats[keep[j]] THEN 1 ELSE 0]]]

PclassCats == <<1, 2, 3>>
PclassNames == <<"Pclass_1", "Pclass_2", "Pclass_3">>
SexCats == <<"female", "male">>
SexNames == <<"Sex_female", "Sex_male">>
CabinCats == <<"No", "Yes">>
CabinNames == <<"Cabin_No", "Cabin_Yes">>
EmbarkedCats == <<"C", "Q", "S">>
EmbarkedNames == <<"Embarked_C", "Embarked_Q", "Embarked_S">>

\* scale_data: StandardScaler fitted on the column and applied to it. The
\* scaled cell (x - mean) / std of a column of n cells with sum S and sum of
\* squares SS equals (n*x - S) / sqrt(n*SS - S*S); it is kept as the pair
\* <<n*x - S, n*SS - S*S>>. A zero variance is replaced by scale 1, which
\* leaves x - mean = 0.
scale_data(data, param) ==
  LET col == Col(data, param)
      n == Len(col)
      S == SumSeq(col)
      SS == SumSeq([i \in 1..n |-> col[i] * col[i]])
  IN  [i \in 1..n |-> <<n * col[i] - S, n * SS - S * S>>]

\* StandardScaler.fit raises ValueError on no rows or on a NaN cell
CanScale(data, param) ==
  Len(data) > 0 /\ \A i \in 1..Len(data) : notnull(data[i][param])

NoImputer == [called |-> FALSE, arg |-> <<>>, fits |-> 0, predicts |-> 0]
NoFeatures == [cols |-> <<>>, shape |-> <<0, 0>>, onehot |-> <<>>, scaled |-> <<>>]

\* pd.concat([pclass, sex, cabin, embarked, age, fare, sibsp, parch,
\* family_size], axis=1)
Concat(pclass, sex, cabin, embarked, age, fare, sibsp, parch, family_size) ==
  LET cols == pclass.cols \o sex.cols \o cabin.cols \o embarked.cols
              \o <<"Age", "Fare", "SibSp", "Parch", "FamilySize">>
      n == Len(age)
  IN  [cols |-> cols,
       shape |-> <<n, Len(cols)>>,
       onehot |-> [i \in 1..n |->
                     pclass.rows[i] \o sex.rows[i] \o cabin.rows[i] \o embarked.rows[i]],
       scaled |-> [i \in 1..n |->
                     <<age[i], fare[i], sibsp[i], parch[i], family_size[i]>>]]

\* The table handed to the Imputer: after the cabin, embarked and fare fills
BeforeAges(data) == FillFare(FillEmbarked(set_cabin_type(data)))

\* (mutant) the Imputer is called on every table
NeedsImputerAlways(data) == TRUE

\* Lines 79-82: the Imputer is called only when some Age is missing
NeedsImputer(data) == Len(AgeIsnull(data)) # 0

\* extract_features(data), with the regressor the Imputer's fit produces.
\* data is the caller's table after the in-place writes; raised is the
\* ValueError of the Imputer or of a scaler.
extract_features(data, alg) ==
  LET d3 == BeforeAges(data)
      need == NeedsImputer(d3)
      imp == fill_missing_ages(d3, alg)
      d4 == IF need THEN imp.data ELSE d3
      imputer == IF need
                 THEN [called |-> TRUE, arg |-> d3, fits |-> imp.fits, predicts |-> imp.predicts]
                 ELSE NoImputer
      d5 == AddFamilySize(d4)
      scalable == \A c \in {"Age", "Fare", "SibSp", "Parch", "FamilySize"} : CanScale(d5, c)
  IN  IF need /\ imp.raised
      THEN [data |-> d3, raised |-> TRUE, features |-> NoFeatures, imputer |-> imputer]
      ELSE IF ~scalable
      THEN [data |-> d5, raised |-> TRUE, features |-> NoFeatures, imputer |-> imputer]
      ELSE [data |-> d5, raised |-> FALSE, imputer |-> imputer,
            features |->
              Concat(get_dummies(Col(d5, "Pclass"), PclassCats, PclassNames),
                     get_dummies(Col(d5, "Sex"), SexCats, SexNames),
                     get_dummies(Col(d5, "Cabin"), CabinCats, CabinNames),
                     get_dummies(Col(d5, "Embarked"), EmbarkedCats, EmbarkedNames),
                     scale_data(d5, "Age"), scale_data(d5, "Fare"),
                     scale_data(d5, "SibSp"), scale_data(d5, "Parch"),
                     scale_data(d5, "FamilySize"))]

\* the regressors the Imputer inside extract_features(data) can come back with
ExtractRegressors(data) ==
  IF NeedsImputer(BeforeAges(data)) THEN RegressorsFor(BeforeAges(data)) ELSE {<<>>}

\* ------------------------------------------------------------ Partitioner
\* cross_validation.KFold(n, n_folds=k, shuffle=False): fold j (1..k) tests
\* a contiguous block of n \div k rows, the first n % k blocks one row more,
\* and trains on the other rows. Row indices are 0-based as in the code.
\* (mutant) every block has n \div k rows
FoldSizeFloor(n, k, j) == n \div k

FoldSize(n, k, j) == n \div k + (IF j <= n % k THEN 1 ELSE 0)

RECURSIVE FoldStart(_, _, _)
FoldStart(n, k, j) == IF j = 1 THEN 0 ELSE FoldStart(n, k, j - 1) + FoldSize(n, k, j - 1)

KFoldTest(n, k, j) == [t \in 1..FoldSize(n, k, j) |-> FoldStart(n, k, j) + t - 1]

KFold(n, k) ==
  [j \in 1..k |->
     LET test == KFoldTest(n, k, j)
     IN  [train |-> SelectSeq([i \in 1..n |-> i - 1], LAMBDA x : x \notin Range(test)),
          test |-> test]]

\* KFold raises ValueError when there are more folds than rows
KFoldRaises(n, k) == k > n

\* --------------------------------------------------------------- Ensemble
\* One row of the feature matrix
FeatureRow(features, i) == <<features.onehot[i + 1], features.scaled[i + 1]>>

\* What a classifier's predict can answer on the rows idx: 0 or 1 per row,
\* the same answer for rows with the same features.
Answers(features, idx) ==
  {[t \in 1..Len(idx) |-> w[FeatureRow(features, idx[t])]] :
     w \in [{FeatureRow(features, idx[t]) : t \in 1..Len(idx)} -> {0, 1}]}

\* test_prediction = preds[0]; for i in 1..: test_prediction += preds[i]
RECURSIVE AddUp(_, _)
AddUp(preds, m) ==
  IF m = 1 THEN preds[1]
  ELSE [t \in 1..Len(preds[1]) |-> AddUp(preds, m - 1)[t] + preds[m][t]]

\* test_prediction / len(algs): the quotient kept as <<numerator, denominator>>
Divide(v, m) == [t \in 1..Len(v) |-> <<v[t], m>>]

\* (mutant) test_prediction[test_prediction >= 0.5] = 1
SetOnesFromHalf(q) == [t \in 1..Len(q) |-> IF 2 * q[t][1] >= q[t][2] THEN <<1, 1>> ELSE q[t]]

\* test_prediction[test_prediction > 0.5] = 1
SetOnes(q) == [t \in 1..Len(q) |-> IF 2 * q[t][1] > q[t][2] THEN <<1, 1>> ELSE q[t]]

\* test_prediction[test_prediction <= 0.5] = 0
SetZeros(q) == [t \in 1..Len(q) |-> IF 2 * q[t][1] <= q[t][2] THEN <<0, 1>> ELSE q[t]]

\* lines 149-154 and 176-181: the label vector of the ensemble (each label a
\* whole number after the two assignments)
Combine(preds, m) ==
  LET q == SetZeros(SetOnes(Divide(AddUp(preds, m), m)))
  IN  [t \in 1..Len(q) |-> q[t][1] \div q[t][2]]

\* (mutant) the fold labels are joined last fold first
RECURSIVE ConcatenateReversed(_)
ConcatenateReversed(list) ==
  IF list = <<>> THEN <<>> ELSE ConcatenateReversed(Tail(list)) \o Head(list)

\* np.concatenate(predictions, axis=0)
RECURSIVE Concatenate(_)
Concatenate(list) == IF list = <<>> THEN <<>> ELSE Head(list) \o Concatenate(Tail(list))

\* error_nb = sum(abs(predictions - Survived))
ErrorNb(preds, survived) == SumSeq([i \in 1..Len(survived) |-> Abs(preds[i] - survived[i])])

\* accuracy = 1 - error_nb / data.shape[0], kept as <<numerator, denominator>>
Accuracy(error_nb, n) == <<n - error_nb, n>>

\* ------------------------------------------------------------------ state
VARIABLES
  data,                  \* the table (train_data), written in place by the calls
  input,                 \* the table as it was when the running / last call began
  clf,                   \* algs: per classifier what it was last fitted on
  pc,                    \* "idle", or the position inside a running loop
  features,              \* local of the running call: the feature matrix
  kf,                    \* local: the folds
  fold,                  \* local: the fold of the loop at line 144 (1..n_folds)
  a,                     \* local: the classifier of the loop at line 146 / 172
  ensemble_predictions,  \* local: list of the classifiers' outputs in this fold
  predictions,           \* local: list of fold labels (line 143) or of outputs (171)
  log,                   \* the fit / predict calls the running call has made
  ret                    \* what the last call returned or that it raised

vars == <<data, input, clf, pc, features, kf, fold, a, ensemble_predictions,
          predictions, log, ret>>

locals == <<features, kf, fold, a, ensemble_predictions, predictions, log>>

Unfitted == [fitted |-> FALSE, train |-> <<>>, ncols |-> 0]

NoRet ==
  [op |-> "none", done |-> FALSE, raised |-> FALSE, features |-> NoFeatures,
   imputer |-> NoImputer, alg |-> <<>>, accuracy |-> <<0, 0>>, labels |-> <<>>]

Raised(op, imputer) == [NoRet EXCEPT !.op = op, !.done = TRUE, !.raised = TRUE, !.imputer = imputer]

ClearLocals ==
  /\ features' = NoFeatures
  /\ kf' = <<>>
  /\ fold' = 0
  /\ a' = 0
  /\ ensemble_predictions' = <<>>
  /\ predictions' = <<>>
  /\ log' = <<>>

\* The rows the tables of the cross-validation runs are made of: one kind
\* of passenger; the label, the cabin and the age vary.
CVRows ==
  { Row(3, "male", 22,  0, 0, 7, "C85", "S", 1),
    Row(3, "male", 22,  0, 0, 7, "C85", "S", 0),
    Row(3, "male", NaN, 0, 0, 7, None,  "S", 0) }

InitWith(rows, maxrows, ms) ==
  /\ \E k \in 0..maxrows : data \in Tables(rows, k)
  /\ input = <<>>
  /\ clf \in {[i \in 1..m |-> Unfitted] : m \in ms}
  /\ pc = "idle"
  /\ features = NoFeatures
  /\ kf = <<>>
  /\ fold = 0
  /\ a = 0
  /\ ensemble_predictions = <<>>
  /\ predictions = <<>>
  /\ log = <<>>
  /\ ret = NoRet

\* ---------------------------------------------------------------- actions
\* features = extract_features(data), called on its own (line 219)
ExtractFeaturesCall ==
  /\ pc = "idle"
  /\ \E alg \in ExtractRegressors(data) :
       \E ex \in {extract_features(data, alg)} :
           /\ data' = ex.data
           /\ input' = data
           /\ ret' = [NoRet EXCEPT !.op = "extract_features", !.done = TRUE,
                                   !.raised = ex.raised, !.features = ex.features,
                                   !.imputer = ex.imputer]
  /\ UNCHANGED <<clf, pc, locals>>

\* data, alg = fill_missing_ages(data), called on its own
FillMissingAgesCall ==
  /\ pc = "idle"
  /\ \E alg \in RegressorsFor(data) :
       \E r \in {fill_missing_ages(data, alg)} :
           /\ data' = r.data
           /\ input' = data
           /\ ret' = [NoRet EXCEPT !.op = "fill_missing_ages", !.done = TRUE,
                                   !.raised = r.raised, !.alg = r.alg,
                                   !.imputer = [called |-> TRUE, arg |-> data,
                                                fits |-> r.fits, predicts |-> r.predicts]]
  /\ UNCHANGED <<clf, pc, locals>>

\* (mutant) the classifier is fitted on every row
FitAllRows(folds, f) ==
  SortSeq(folds[f].train \o folds[f].test, <)

\* The rows a classifier is fitted on in a fold (line 147)
FitRows(folds, f) == folds[f].train

\* The rows a classifier predicts in a fold (line 148)
PredictRows(folds, f) == folds[f].test

\* alg.fit(features.iloc[rows, :], data['Survived'].iloc[rows])
Fitted(feats, rows) == [fitted |-> TRUE, train |-> rows, ncols |-> feats.shape[2]]

\* predict raises on a classifier that was never fitted, on a matrix whose
\* column count is not the one seen by fit, and on no rows
CanPredict(c, feats, rows) == c.fitted /\ c.ncols = feats.shape[2] /\ Len(rows) > 0

AllRows(feats) == [i \in 1..feats.shape[1] |-> i - 1]

\* cross_validation_evaluation, lines 136-143: extract the features, build
\* the folds, enter the loop
CVStart ==
  /\ pc = "idle"
  /\ input' = data
  /\ \E alg \in ExtractRegressors(data) :
       \E ex \in {extract_features(data, alg)} :
       LET n == ex.features.shape[1]
       IN  /\ data' = ex.data
           /\ IF ex.raised \/ KFoldRaises(n, n_folds)
              THEN /\ ret' = Raised("cross_validation_evaluation", ex.imputer)
                   /\ UNCHANGED <<pc, locals>>
              ELSE /\ ret' = [NoRet EXCEPT !.op = "cross_validation_evaluation",
                                           !.imputer = ex.imputer]
                   /\ pc' = "fit"
                   /\ features' = ex.features
                   /\ kf' = KFold(n, n_folds)
                   /\ fold' = 1
                   /\ a' = 1
                   /\ ensemble_predictions' = <<>>
                   /\ predictions' = <<>>
                   /\ log' = <<>>
  /\ UNCHANGED clf

\* line 147: fit classifier a on the fold's training rows
CVFit ==
  /\ pc = "fit" /\ fold <= n_folds /\ a <= Len(clf)
  /\ clf' = [clf EXCEPT ![a] = Fitted(features, FitRows(kf, fold))]
  /\ log' = Append(log, [kind |-> "fit", alg |-> a, rows |-> FitRows(kf, fold)])
  /\ pc' = "predict"
  /\ UNCHANGED <<data, input, features, kf, fold, a, ensemble_predictions, predictions, ret>>

\* line 148: predict the fold's test rows with classifier a
CVPredict ==
  /\ pc = "predict"
  /\ \E out \in Answers(features, PredictRows(kf, fold)) :
       ensemble_predictions' = Append(ensemble_predictions, out)
  /\ log' = Append(log, [kind |-> "predict", alg |-> a, rows |-> PredictRows(kf, fold)])
  /\ a' = a + 1
  /\ pc' = "fit"
  /\ UNCHANGED <<data, input, clf, features, kf, fold, predictions, ret>>

\* lines 149-155: add the outputs up in place (ensemble_predictions[0] is the
\* array the sum is accumulated in), divide, threshold, record; then the
\* next fold starts with an empty list (line 145)
CVCombine ==
  /\ pc = "fit" /\ fold <= n_folds /\ a > Len(clf)
  /\ predictions' = Append(predictions, Combine(ensemble_predictions, Len(clf)))
  /\ ensemble_predictions' =
       IF fold < n_folds THEN <<>>
       ELSE [ensemble_predictions EXCEPT ![1] = AddUp(ensemble_predictions, Len(clf))]
  /\ fold' = fold + 1
  /\ a' = 1
  /\ UNCHANGED <<data, input, clf, pc, features, kf, log, ret>>

\* lines 157-162: concatenate, count the errors, return the accuracy
CVFinish ==
  /\ pc = "fit" /\ fold > n_folds
  /\ LET all == Concatenate(predictions)
         error_nb == ErrorNb(all, Col(data, "Survived"))
     IN  ret' = [ret EXCEPT !.done = TRUE, !.accuracy = Accuracy(error_nb, Len(data))]
  /\ pc' = "idle"
  /\ ClearLocals
  /\ UNCHANGED <<data, input, clf>>

\* train_model(data, algs): extract the features, fit every classifier on
\* all rows, return the classifiers and the features
train_model ==
  /\ pc = "idle"
  /\ input' = data
  /\ \E alg \in ExtractRegressors(data) :
       \E ex \in {extract_features(data, alg)} :
           /\ data' = ex.data
           /\ IF ex.raised
              THEN /\ ret' = Raised("train_model", ex.imputer)
                   /\ UNCHANGED clf
              ELSE /\ \E c \in {Fitted(ex.features, AllRows(ex.features))} :
                        clf' = [i \in 1..Len(clf) |-> c]
                   /\ ret' = [NoRet EXCEPT !.op = "train_model", !.done = TRUE,
                                           !.features = ex.features, !.imputer = ex.imputer]
  /\ UNCHANGED <<pc, locals>>

\* submission, lines 168-171: extract the features, enter the loop
SubmissionStart ==
  /\ pc = "idle"
  /\ input' = data
  /\ \E alg \in ExtractRegressors(data) :
       \E ex \in {extract_features(data, alg)} :
           /\ data' = ex.data
           /\ IF ex.raised
              THEN /\ ret' = Raised("submission", ex.imputer)
                   /\ UNCHANGED <<pc, locals>>
              ELSE /\ ret' = [NoRet EXCEPT !.op = "submission", !.imputer = ex.imputer]
                   /\ pc' = "submission"
                   /\ features' = ex.features
                   /\ a' = 1
                   /\ predictions' = <<>>
                   /\ log' = <<>>
                   /\ UNCHANGED <<kf, fold, ensemble_predictions>>
  /\ UNCHANGED clf

\* lines 172-174: predict all rows with classifier a; a classifier that
\* cannot predict raises and the call ends
SubmissionPredict ==
  /\ pc = "submission" /\ a <= Len(clf)
  /\ IF CanPredict(clf[a], features, AllRows(features))
     THEN /\ \E out \in Answers(features, AllRows(features)) :
               predictions' = Append(predictions, out)
          /\ log' = Append(log, [kind |-> "predict", alg |-> a, rows |-> AllRows(features)])
          /\ a' = a + 1
          /\ UNCHANGED <<pc, features, kf, fold, ensemble_predictions, ret>>
     ELSE /\ ret' = Raised("submission", ret.imputer)
          /\ pc' = "idle"
          /\ ClearLocals
  /\ UNCHANGED <<data, input, clf>>

\* lines 176-187: combine the outputs and return the submission frame
SubmissionFinish ==
  /\ pc = "submission" /\ a > Len(clf)
  /\ ret' = [ret EXCEPT !.done = TRUE, !.labels = Combine(predictions, Len(clf))]
  /\ pc' = "idle"
  /\ ClearLocals
  /\ UNCHANGED <<data, input, clf>>

\* -------------------------------------------------------- specifications
\* The feature extractor and the Imputer on tables of every kind of row
InitFE == InitWith(RawRows, MaxRows, {1})

NextFE == ExtractFeaturesCall \/ FillMissingAgesCall

SpecFE == InitFE /\ [][NextFE]_vars

\* The whole program on tables of one passenger profile
Init == InitWith(CVRows, MaxN, 1..MaxM)

Next ==
  \/ ExtractFeaturesCall
  \/ FillMissingAgesCall
  \/ CVStart
  \/ CVFit
  \/ CVPredict
  \/ CVCombine
  \/ CVFinish
  \/ train_model
  \/ SubmissionStart
  \/ SubmissionPredict
  \/ SubmissionFinish

Spec == Init /\ [][Next]_vars

\* ================================================================ claims
Extracted == ret.op = "extract_features" /\ ret.done /\ ~ret.raised

\* the indicator column `name` exists and is 1 in row i of the matrix
Has(feats, i, name) ==
  \E j \in 1..Len(feats.cols) : feats.cols[j] = name /\ feats.onehot[i][j] = 1

\* The 15 columns of a table in which every category occurs
FullColumns ==
  <<"Pclass_1", "Pclass_2", "Pclass_3", "Sex_female", "Sex_male",
    "Cabin_No", "Cabin_Yes", "Embarked_C", "Embarked_Q", "Embarked_S",
    "Age", "Fare", "SibSp", "Parch", "FamilySize">>

\* whether the table gives rise to the column: a normalized column always,
\* an indicator column when its category occurs in the table
Occurs(name, table) ==
  CASE name = "Pclass_1" -> \E i \in 1..Len(table) : table[i].Pclass = 1
    [] name = "Pclass_2" -> \E i \in 1..Len(table) : table[i].Pclass = 2
    [] name = "Pclass_3" -> \E i \in 1..Len(table) : table[i].Pclass = 3
    [] name = "Sex_female" -> \E i \in 1..Len(table) : table[i].Sex = "female"
    [] name = "Sex_male" -> \E i \in 1..Len(table) : table[i].Sex = "male"
    [] name = "Cabin_No" -> \E i \in 1..Len(table) : table[i].Cabin = None
    [] name = "Cabin_Yes" -> \E i \in 1..Len(table) : table[i].Cabin # None
    [] name = "Embarked_C" -> \E i \in 1..Len(table) : table[i].Embarked = "C"
    [] name = "Embarked_Q" -> \E i \in 1..Len(table) : table[i].Embarked = "Q"
    [] name = "Embarked_S" -> \E i \in 1..Len(table) : table[i].Embarked \in {"S", None}
    [] OTHER -> TRUE

ExpectedColumns(table) == SelectSeq(FullColumns, LAMBDA name : Occurs(name, table))

Imputed == ret.op = "fill_missing_ages" /\ ret.done /\ ~ret.raised

\* the regression features of a row, as the Imputer reads them
Regressors(row) == <<row.SibSp, row.Parch, row.Fare, row.Pclass>>

\* C4: after fill_missing_ages returns, a record whose Age was present is
\* unchanged in every attribute, a record whose Age was missing differs from
\* the input in its Age alone, which is the age the returned regressor
\* predicts for that record, and no Age is missing.
C4_ImputerWritesOnlyMissingAges ==
  Imputed =>
    /\ Len(data) = Len(input)
    /\ \A i \in 1..Len(input) :
         /\ notnull(data[i].Age)
         /\ notnull(input[i].Age) => data[i] = input[i]
         /\ isnull(input[i].Age) =>
              data[i] = [input[i] EXCEPT !.Age = ret.alg[Regressors(input[i])]]

\* two records with missing ages were given different predicted ages
C4_Witness ==
  /\ Imputed
  /\ \E i, j \in 1..Len(input) :
       /\ i < j
       /\ isnull(input[i].Age) /\ isnull(input[j].Age)
       /\ data[i].Age # data[j].Age
  /\ \E i \in 1..Len(input) : notnull(input[i].Age)

\* C6 (as stated): two calls of extract_features on the same table, one
\* after the other, return the same feature matrix.
C6_RepeatedCallsAgree ==
  [][(Extracted /\ Extracted') => ret'.features = ret.features]_vars

NoMissingAge(table) == \A i \in 1..Len(table) : notnull(table[i].Age)

\* C7 (as stated): on a table with no missing Age neither extract_features
\* nor the Imputer itself performs a regressor fit or predict.
C7_Original ==
  (/\ ret.done /\ ~ret.raised
   /\ ret.op \in {"extract_features", "fill_missing_ages"}
   /\ Len(input) > 0 /\ NoMissingAge(input))
    => ret.imputer.fits = 0 /\ ret.imputer.predicts = 0

\* C7 (as amended): on a table with no missing Age extract_features does not
\* call the Imputer, so it performs no regressor fit and no predict, and its
\* matrix has the shape the table's categories give, as when the Imputer ran;
\* the Imputer itself does not skip: called on such a table it fits (on the
\* complete partition), predicts on the placeholder row if the fit succeeded,
\* and changes no cell.
C7_ExtractorSkipsImputer ==
  /\ (ret.done /\ ret.op = "extract_features" /\ NoMissingAge(input)) =>
       /\ ~ret.imputer.called
       /\ ret.imputer.fits = 0 /\ ret.imputer.predicts = 0
  /\ (ret.done /\ ret.op = "extract_features" /\ ~NoMissingAge(input)) =>
       ret.imputer.called /\ ret.imputer.fits = 1
  /\ Extracted => ret.features.shape = <<Len(input), Len(ExpectedColumns(input))>>
  /\ (ret.done /\ ret.op = "fill_missing_ages" /\ NoMissingAge(input)) =>
       /\ ret.imputer.fits = 1
       /\ ~ret.raised => ret.imputer.predicts = 1
       /\ data = input

\* extract_features succeeded on a table with no missing Age without the
\* Imputer
C7_Witness ==
  /\ Extracted
  /\ Len(input) > 0
  /\ NoMissingAge(input)
  /\ ~ret.imputer.called

\* C9: after extract_features, per record: the cabin-absent indicator is set
\* exactly when the Cabin handed in was missing and the cabin-present one
\* otherwise; a missing Embarked is encoded as port S and a present one as
\* its own port; the Age the age column is normalized from is not missing.
\* The Imputer is handed the table after the cabin, embarked and fare fills:
\* it sees no missing Fare when some Fare was present.
C9_FillsBeforeImputer ==
  /\ Extracted =>
       \A i \in 1..Len(input) :
         /\ Has(ret.features, i, "Cabin_No") <=> isnullStr(input[i].Cabin)
         /\ Has(ret.features, i, "Cabin_Yes") <=> notnullStr(input[i].Cabin)
         /\ \A port \in {"C", "Q", "S"} :
              Has(ret.features, i, EmbarkedNames[CHOOSE k \in 1..3 : EmbarkedCats[k] = port])
                <=> (input[i].Embarked = port \/ (port = "S" /\ isnullStr(input[i].Embarked)))
         /\ notnull(data[i].Age)
         /\ ret.features.scaled[i][1][1]
              = Len(data) * data[i].Age - SumSeq(Col(data, "Age"))
  /\ (ret.done /\ ret.op = "extract_features" /\ ret.imputer.called) =>
       /\ Len(ret.imputer.arg) = Len(input)
       /\ \A i \in 1..Len(input) :
            /\ ret.imputer.arg[i].Cabin = (IF isnullStr(input[i].Cabin) THEN "No" ELSE "Yes")
            /\ notnullStr(ret.imputer.arg[i].Embarked)
            /\ ret.imputer.arg[i].Age = input[i].Age
            /\ (\E j \in 1..Len(input) : notnull(input[j].Fare))
                 => notnull(ret.imputer.arg[i].Fare)

\* a record with Age, Cabin and Embarked missing went through, with a
\* missing Fare elsewhere in the table
C9_Witness ==
  /\ Extracted
  /\ ret.imputer.called
  /\ \E i \in 1..Len(input) :
       isnull(input[i].Age) /\ isnullStr(input[i].Cabin) /\ isnullStr(input[i].Embarked)
  /\ \E i \in 1..Len(input) : isnull(input[i].Fare)

\* the cross-validation loop is running
InLoop == pc \in {"fit", "predict"}

\* the loop has ended and the accuracy is not yet computed
LoopDone == pc = "fit" /\ fold = n_folds + 1

Increasing(s) == \A t \in 1..(Len(s) - 1) : s[t] < s[t + 1]

\* C2: the folds of a table of N rows: the test sets are pairwise disjoint,
\* their union is {0..N-1}, each is a contiguous range, they follow each
\* other in record order, and each train set is the complement of its test
\* set.
C2_FoldsPartitionRows ==
  InLoop =>
    LET N == Len(data)
    IN  /\ Len(kf) = n_folds
        /\ UNION {Range(kf[j].test) : j \in 1..n_folds} = 0..(N - 1)
        /\ \A j, k \in 1..n_folds :
             j # k => Range(kf[j].test) \cap Range(kf[k].test) = {}
        /\ \A j \in 1..n_folds :
             /\ Len(kf[j].test) > 0
             /\ \A t \in 1..(Len(kf[j].test) - 1) : kf[j].test[t + 1] = kf[j].test[t] + 1
             /\ Range(kf[j].train) = (0..(N - 1)) \ Range(kf[j].test)
             /\ Len(kf[j].train) + Len(kf[j].test) = N
             /\ Increasing(kf[j].train)
        /\ \A j \in 1..(n_folds - 1) :
             kf[j].test[Len(kf[j].test)] + 1 = kf[j + 1].test[1]

\* a table whose row count is no multiple of 3 was split
C2_Witness ==
  /\ InLoop
  /\ Len(data) % n_folds # 0
  /\ Len(kf[1].test) > Len(kf[n_folds].test)

\* the label of the arithmetic mean of the outputs: 1 when the mean of the
\* m outputs exceeds one half, that is when twice their sum exceeds m
MeanLabels(outputs) ==
  LET m == Len(outputs)
  IN  [t \in 1..Len(outputs[1]) |->
         IF 2 * SumSeq([x \in 1..m |-> outputs[x][t]]) > m THEN 1 ELSE 0]

\* C3: in cross_validation_evaluation and in submission the ensemble label
\* of a record is 1 exactly when the mean of the M classifier outputs is
\* greater than 0.5 and 0 otherwise (0 at a mean of exactly 0.5).
C3_EnsembleThreshold ==
  [][/\ (pc = "fit" /\ fold' = fold + 1) =>
          /\ Len(predictions') = fold
          /\ predictions'[fold] = MeanLabels(ensemble_predictions)
          /\ Range(predictions'[fold]) \subseteq {0, 1}
     /\ (pc = "submission" /\ pc' = "idle" /\ ~ret'.raised) =>
          /\ ret'.labels = MeanLabels(predictions)
          /\ Range(ret'.labels) \subseteq {0, 1}
          /\ Len(ret'.labels) = Len(data)]_vars

\* the last fold was combined from outputs whose mean was exactly 0.5 for
\* some record, and the record's label is 0
C3_Witness ==
  /\ LoopDone
  /\ \E t \in 1..Len(predictions[n_folds]) :
       /\ 2 * ensemble_predictions[1][t] = Len(clf)
       /\ predictions[n_folds][t] = 0

\* the label recorded for row i (0-based) in the fold that tests it
PredictionFor(i) ==
  LET j == CHOOSE j \in 1..n_folds : i \in Range(kf[j].test)
      t == CHOOSE t \in 1..Len(kf[j].test) : kf[j].test[t] = i
  IN  predictions[j][t]

\* C5: the accuracy returned is the number of records whose label, recorded
\* in the fold that tests the record, equals the record's Survived, divided
\* by N; it lies in [0, 1].
C5_AccuracyCountsMatches ==
  [][(LoopDone /\ pc' = "idle") =>
       LET N == Len(data)
           right == {i \in 0..(N - 1) : PredictionFor(i) = data[i + 1].Survived}
       IN  /\ N > 0
           /\ SumSeq([j \in 1..n_folds |-> Len(predictions[j])]) = N
           /\ ret'.done /\ ~ret'.raised
           /\ ret'.accuracy = <<Cardinality(right), N>>
           /\ 0 <= ret'.accuracy[1] /\ ret'.accuracy[1] <= ret'.accuracy[2]]_vars

\* an accuracy strictly between 0 and 1 was returned
C5_Witness ==
  /\ ret.op = "cross_validation_evaluation" /\ ret.done /\ ~ret.raised
  /\ 0 < ret.accuracy[1] /\ ret.accuracy[1] < ret.accuracy[2]

AllAgesMissing(table) == Len(table) > 0 /\ \A i \in 1..Len(table) : isnull(table[i].Age)

\* C8: a call on a table in which every Age is missing ends with the error
\* of the Imputer: it is raised to the caller, no age is written, and no
\* feature matrix, accuracy or prediction comes back.
C8_EmptyCompletePartitionRaises ==
  (ret.op # "none" /\ AllAgesMissing(input)) =>
    /\ pc = "idle"
    /\ ret.done /\ ret.raised
    /\ ret.imputer.called /\ ret.imputer.fits = 1 /\ ret.imputer.predicts = 0
    /\ ret.features = NoFeatures
    /\ ret.accuracy = <<0, 0>>
    /\ ret.labels = <<>>
    /\ Len(data) = Len(input)
    /\ \A i \in 1..Len(data) : isnull(data[i].Age)

\* cross_validation_evaluation was called on a table of at least 3 records,
\* all without Age, and raised
C8_Witness ==
  /\ ret.op = "cross_validation_evaluation"
  /\ ret.raised
  /\ AllAgesMissing(input)
  /\ Len(input) >= n_folds

\* the fold (1..n_folds) whose test rows are `rows`
FoldOf(rows) == CHOOSE j \in 1..n_folds : kf[j].test = rows

\* the position in the log of classifier x's last fit before position p (0: none)
LastFit(x, p) ==
  LET fits == {q \in 1..(p - 1) : log[q].kind = "fit" /\ log[q].alg = x}
  IN  IF fits = {} THEN 0 ELSE SetMax(fits)

\* C10: in cross_validation_evaluation every predict of a classifier on a
\* fold's test rows comes after a fit of that classifier on that fold's
\* training rows, with no other fit of it in between, so a record is never
\* predicted by a model trained on it; when the loop ends every classifier
\* was fitted exactly 3 times and every record was predicted exactly once
\* by every classifier.
C10_FitBeforePredictPerFold ==
  InLoop =>
    /\ \A p \in 1..Len(log) :
         log[p].kind = "predict" =>
           LET q == LastFit(log[p].alg, p)
           IN  /\ q > 0
               /\ \E j \in 1..n_folds : kf[j].test = log[p].rows
               /\ log[q].rows = kf[FoldOf(log[p].rows)].train
               /\ Range(log[q].rows) \cap Range(log[p].rows) = {}
    /\ pc = "predict" =>
         /\ clf[a].fitted
         /\ clf[a].train = kf[fold].train
         /\ Range(clf[a].train) \cap Range(kf[fold].test) = {}
    /\ LoopDone =>
         /\ \A x \in 1..Len(clf) :
              /\ Cardinality({p \in 1..Len(log) : log[p].kind = "fit" /\ log[p].alg = x}) = 3
              /\ \A i \in 0..(Len(data) - 1) :
                   Cardinality({p \in 1..Len(log) :
                                  /\ log[p].kind = "predict"
                                  /\ log[p].alg = x
                                  /\ i \in Range(log[p].rows)}) = 1

\* the loop ended for several classifiers
C10_Witness ==
  /\ LoopDone
  /\ Len(clf) >= 2
  /\ Len(log) = 2 * n_folds * Len(clf)

====
